---- MODULE Spec2Model ----
(***************************************************************************)
(* Biometric identity engine of ai-tutor: face_db.py (the identity store,  *)
(* one .npy file per name), face_detector.py (localizer and descriptor     *)
(* extractor) and face_auth.py (register_face / authenticate).             *)
(*                                                                         *)
(* Descriptors are integer vectors; cosine similarity is kept exact as the *)
(* pair (dot product, product of squared norms) and compared with the      *)
(* thresholds by cross-multiplication, thresholds being in hundredths.     *)
(* Names are sequences of tokens: a leading word and dotted suffixes, so   *)
(* that the file-name round trip name -> "<name>.npy" -> Path.stem is      *)
(* computed and not assumed.                                               *)
(*                                                                         *)
(* database.py (DatabaseManager on one SQLite file) is a second state      *)
(* machine, SpecDb, over db and dbcall.  _calculate_similarity and         *)
(* extract_face_embedding are also applied on their own, to inputs the     *)
(* engine never hands them (the zero vector, a face count other than one), *)
(* in SpecUnit over unit.                                                  *)
(*                                                                         *)
(* The callers of the engine and the services beside it are further state  *)
(* machines: SpecApi (api/auth.py, POST /register and /login over store    *)
(* and db, answers in http), SpecTr (translate_content and its retries, in *)
(* tr), SpecGen (POST /generate-topics and its background task, in gen)    *)
(* and SpecGui (LoginView of app/ui/main.py, whose worker thread runs the  *)
(* engine on store, in gui).  SpecTr and SpecGen carry weak fairness of    *)
(* the steps that end an LLM request or a background task.                 *)
(***************************************************************************)
EXTENDS Integers, Sequences, FiniteSets, TLC

VARIABLES store, pc, call, db, dbcall, unit, http, tr, gen, gui

vars == <<store, pc, call, db, dbcall, unit, http, tr, gen, gui>>

\* ------------------------------------------------------------------------
\* Bounds and input domains
\* ------------------------------------------------------------------------

\* Largest number of face regions the detector reports for one frame.
MaxFaces == 2

\* Largest number of identity files the directory is let grow to.
MaxStore == 2

\* Concurrent callers of the engine: the GUI's worker thread and the HTTP
\* server are separate processes working on the same directory.
Procs == {"w1", "w2"}

None == "None"

\* Names: non-empty strings that are one path component, as a leading word
\* followed by dotted suffixes.  (The GUI dialog and the HTTP form both
\* refuse an empty name.)
DotTokens == {".npy"}

Names == {<<"alice">>, <<"bob">>, <<"bob", ".npy">>}

\* Descriptors (stand-ins for the flattened HOG vector).
\*   cos(DescU, DescE95) = 19/20, cos(DescU, DescE85) = 17/20,
\*   cos(DescE95, DescE85) = 4/5.
DescU == <<0, 1, 1, 1, 1>>

DescE95 == <<3, 4, 5, 5, 5>>

DescE85 == <<1, 8, 1, 3, 5>>

Descriptors == {DescU, DescE95, DescE85}

\* A frame is abstracted to what the detector and the extractor make of it:
\* the located regions and the descriptor of the (single) region.
Frames ==
    {[faces |-> n, emb |-> None] : n \in (0..MaxFaces) \ {1}}
        \cup {[faces |-> 1, emb |-> d] : d \in Descriptors}

\* ------------------------------------------------------------------------
\* face_auth.py constants (hundredths)
\* ------------------------------------------------------------------------
DEF_TOLERANCE == 85

DUPLICATE_THRESHOLD == 95

Tolerances == {DEF_TOLERANCE, 90}

\* ------------------------------------------------------------------------
\* face_db.py : the identity store
\* ------------------------------------------------------------------------

\* EMBED_DIR / f"{name}.npy"
file_name(name) == name \o <<".npy">>

\* EMBED_DIR.glob("*.npy")
glob_npy(dir) == {f \in DOMAIN dir : Len(f) >= 1 /\ f[Len(f)] = ".npy"}

\* Variant: every suffix is stripped, not only the last one.
stem_all_suffixes(file) ==
    IF Len(file) > 1 /\ file[Len(file)] \in DotTokens
    THEN SubSeq(file, 1, 1)
    ELSE file

\* pathlib Path.stem: the name without its last suffix; a name whose only
\* dot is the leading one has no suffix.
stem(file) ==
    IF Len(file) > 1 /\ file[Len(file)] \in DotTokens
    THEN SubSeq(file, 1, Len(file) - 1)
    ELSE file

\* Variant: nothing is written.
save_encoding_nothing(dir, name, encoding) == dir

\* Variant: the directory is emptied before the file is written.
save_encoding_truncating(dir, name, encoding) ==
    [f \in {file_name(name)} |-> encoding]

\* np.save(EMBED_DIR / f"{name}.npy", encoding): creates or replaces the file.
save_encoding(dir, name, encoding) ==
    [f \in (DOMAIN dir) \cup {file_name(name)} |->
        IF f = file_name(name) THEN encoding ELSE dir[f]]

\* The orders in which the directory may be enumerated.
GlobOrders(dir) ==
    LET S == glob_npy(dir)
        n == Cardinality(S)
    IN  {o \in [1..n -> S] : \A i, j \in 1..n : o[i] = o[j] => i = j}

\* Variant: a snapshot kept from the start of the program, when the
\* directory was empty.
load_all_encodings_cached(dir, order) == [names |-> <<>>, encodings |-> <<>>]

\* Variant: the rows are stacked in the reverse of the order of the names.
load_all_encodings_reversed(dir, order) ==
    [names     |-> [i \in 1..Len(order) |-> stem(order[i])],
     encodings |-> [i \in 1..Len(order) |-> dir[order[Len(order) + 1 - i]]]]

\* load_all_encodings(): names and stacked encodings, in enumeration order.
load_all_encodings(dir, order) ==
    [names     |-> [i \in 1..Len(order) |-> stem(order[i])],
     encodings |-> [i \in 1..Len(order) |-> dir[order[i]]]]

\* ------------------------------------------------------------------------
\* face_detector.py
\* ------------------------------------------------------------------------

\* detect_faces(frame): the located regions.
detect_faces(frame) == [i \in 1..frame.faces |-> i]

\* extract_face_embedding(frame, faces)
extract_face_embedding(frame, faces) ==
    IF Len(faces) # 1 THEN None ELSE frame.emb

\* ------------------------------------------------------------------------
\* face_auth.py : similarity
\* ------------------------------------------------------------------------
RECURSIVE DotUpTo(_, _, _)
DotUpTo(a, b, k) ==
    IF k = 0 THEN 0 ELSE a[k] * b[k] + DotUpTo(a, b, k - 1)

\* np.dot(a, b)
Dot(a, b) == DotUpTo(a, b, Len(a))

\* np.linalg.norm(a) squared
NormSq(a) == Dot(a, a)

\* np.dot(emb1, emb2) / (norm(emb1) * norm(emb2)); 0/0 is nan.
calculate_similarity(emb1, emb2) ==
    [nan |-> NormSq(emb1) * NormSq(emb2) = 0,
     dot |-> Dot(emb1, emb2),
     nsq |-> NormSq(emb1) * NormSq(emb2)]

\* similarity > t/100 ; every comparison with nan is false
SimGT(s, t) == ~s.nan /\ s.dot >= 0 /\ 10000 * s.dot * s.dot > t * t * s.nsq

\* similarity >= t/100
SimGE(s, t) == ~s.nan /\ s.dot >= 0 /\ 10000 * s.dot * s.dot >= t * t * s.nsq

\* s1 < s2 for two similarities that are not nan
SimLess(s1, s2) ==
    IF s1.dot < 0 /\ s2.dot >= 0 THEN TRUE
    ELSE IF s1.dot >= 0 /\ s2.dot < 0 THEN FALSE
    ELSE IF s1.dot >= 0
         THEN s1.dot * s1.dot * s2.nsq < s2.dot * s2.dot * s1.nsq
         ELSE s1.dot * s1.dot * s2.nsq > s2.dot * s2.dot * s1.nsq

\* Variant: the first index, whatever the similarities.
argmax_first(sims) == 1

\* Variant: the last index of the maximum.
argmax_last(sims) ==
    LET I == 1..Len(sims)
        nans == {i \in I : sims[i].nan}
        tops == {i \in I : \A j \in I : ~SimLess(sims[i], sims[j])}
    IN  IF nans # {}
        THEN CHOOSE i \in nans : \A j \in nans : i <= j
        ELSE CHOOSE i \in tops : \A j \in tops : i >= j

\* np.argmax(similarities): first nan if any, else first index of the maximum
argmax(sims) ==
    LET I == 1..Len(sims)
        nans == {i \in I : sims[i].nan}
        tops == {i \in I : \A j \in I : ~SimLess(sims[i], sims[j])}
    IN  IF nans # {}
        THEN CHOOSE i \in nans : \A j \in nans : i <= j
        ELSE CHOOSE i \in tops : \A j \in tops : i <= j

\* Variant: the first similarity instead of the largest.
max_first(sims) == sims[1]

\* np.max(similarities): nan propagates
max(sims) == sims[argmax(sims)]

\* ------------------------------------------------------------------------
\* Outcomes of a call
\* ------------------------------------------------------------------------
Raised(msg, arg) ==
    [status |-> "raised", type |-> "RuntimeError", msg |-> msg, arg |-> arg]

Returned(v) ==
    [status |-> "returned", type |-> None, msg |-> None, arg |-> v]

Pending == [status |-> "pending", type |-> None, msg |-> None, arg |-> None]

MSG_NAME_REGISTERED == "Student is already registered."

MSG_NO_FACE == "No face detected. Please ensure your face is clearly visible."

MSG_MULTIPLE_FACES == "Multiple faces detected. Only one person at a time."

MSG_EXTRACT_FAILED == "Could not extract face features. Please try again."

MSG_DUPLICATE_FACE == "This face is already registered as"

MSG_NO_STUDENTS == "No registered students found. Please register first."

MSG_NO_KNOWN_FACES == "Authentication failed. No known faces to compare against."

MSG_NOT_REGISTERED == "Face not registered. Access denied."

\* ------------------------------------------------------------------------
\* face_auth.py : duplicate check, register_face, authenticate
\* ------------------------------------------------------------------------
\* Variant: the duplicate threshold itself counts as a duplicate.
is_duplicate_similarity_ge(similarity) == SimGE(similarity, DUPLICATE_THRESHOLD)

\* Variant: a duplicate threshold below the authentication tolerance.
is_duplicate_similarity_low(similarity) == SimGT(similarity, 80)

\* Variant: no similarity counts as a duplicate.
is_duplicate_similarity_never(similarity) == FALSE

\* face_auth.py:23  similarity > _DUPLICATE_THRESHOLD
is_duplicate_similarity(similarity) == SimGT(similarity, DUPLICATE_THRESHOLD)

\* Variant: the tolerance itself is not accepted.
meets_tolerance_gt(max_similarity, tolerance) == SimGT(max_similarity, tolerance)

\* face_auth.py:85  max_similarity >= tolerance
meets_tolerance(max_similarity, tolerance) == SimGE(max_similarity, tolerance)

\* Variant: the name check is missing.
name_in_names_never(name, existing_names) == FALSE

\* face_auth.py:32  name in existing_names
name_in_names(name, existing_names) ==
    \E i \in 1..Len(existing_names) : existing_names[i] = name

\* Variant: the empty-store check is missing.
no_names_never(names) == FALSE

\* face_auth.py:61  not names
no_names(names) == Len(names) = 0

\* Variant: a frame with no face is let through.
zero_faces_never(faces) == FALSE

\* face_auth.py:39,68  len(faces) == 0
zero_faces(faces) == Len(faces) = 0

\* Variant: two faces are let through.
many_faces_gt2(faces) == Len(faces) > 2

\* face_auth.py:41,70  len(faces) > 1
many_faces(faces) == Len(faces) > 1

\* Variant: the scan goes on to the last index that is a duplicate.
RECURSIVE DuplicateScan_last(_, _, _, _)
DuplicateScan_last(new_encoding, existing_names, existing_encodings, i) ==
    IF i > Len(existing_encodings)
    THEN [is_duplicate |-> FALSE, existing_name |-> None]
    ELSE LET rest == DuplicateScan_last(new_encoding, existing_names,
                                        existing_encodings, i + 1)
         IN  IF rest.is_duplicate THEN rest
             ELSE IF is_duplicate_similarity(
                        calculate_similarity(new_encoding, existing_encodings[i]))
                  THEN [is_duplicate |-> TRUE, existing_name |-> existing_names[i]]
                  ELSE rest

RECURSIVE DuplicateScan(_, _, _, _)
DuplicateScan(new_encoding, existing_names, existing_encodings, i) ==
    IF i > Len(existing_encodings)
    THEN [is_duplicate |-> FALSE, existing_name |-> None]
    ELSE IF is_duplicate_similarity(
                calculate_similarity(new_encoding, existing_encodings[i]))
         THEN [is_duplicate |-> TRUE, existing_name |-> existing_names[i]]
         ELSE DuplicateScan(new_encoding, existing_names, existing_encodings, i + 1)

\* Variant: the early return is taken for a non-empty store.
check_for_duplicate_face_inverted(new_encoding, existing_names, existing_encodings) ==
    IF Len(existing_encodings) # 0
    THEN [is_duplicate |-> FALSE, existing_name |-> None]
    ELSE DuplicateScan(new_encoding, existing_names, existing_encodings, 1)

check_for_duplicate_face(new_encoding, existing_names, existing_encodings) ==
    IF Len(existing_encodings) = 0
    THEN [is_duplicate |-> FALSE, existing_name |-> None]
    ELSE DuplicateScan(new_encoding, existing_names, existing_encodings, 1)

\* register_face up to (not including) save_encoding: the outcome is Pending
\* when every check has passed and the save is the next thing to happen.
register_face(name, frame, snap) ==
    IF name_in_names(name, snap.names)
    THEN [result |-> Raised(MSG_NAME_REGISTERED, name),
          stages |-> <<"load">>, encoding |-> None]
    ELSE
    LET faces == detect_faces(frame) IN
    IF zero_faces(faces)
    THEN [result |-> Raised(MSG_NO_FACE, None),
          stages |-> <<"load", "detect">>, encoding |-> None]
    ELSE IF many_faces(faces)
    THEN [result |-> Raised(MSG_MULTIPLE_FACES, None),
          stages |-> <<"load", "detect">>, encoding |-> None]
    ELSE
    LET new_encoding == extract_face_embedding(frame, faces) IN
    IF new_encoding = None
    THEN [result |-> Raised(MSG_EXTRACT_FAILED, None),
          stages |-> <<"load", "detect", "extract">>, encoding |-> None]
    ELSE
    LET dup == check_for_duplicate_face(new_encoding, snap.names, snap.encodings) IN
    IF dup.is_duplicate
    THEN [result |-> Raised(MSG_DUPLICATE_FACE, dup.existing_name),
          stages |-> <<"load", "detect", "extract", "compare">>,
          encoding |-> new_encoding]
    ELSE [result |-> Pending,
          stages |-> <<"load", "detect", "extract", "compare">>,
          encoding |-> new_encoding]

authenticate(frame, tolerance, snap) ==
    IF no_names(snap.names)
    THEN [result |-> Raised(MSG_NO_STUDENTS, None),
          stages |-> <<"load">>, encoding |-> None]
    ELSE
    LET faces == detect_faces(frame) IN
    IF zero_faces(faces)
    THEN [result |-> Raised(MSG_NO_FACE, None),
          stages |-> <<"load", "detect">>, encoding |-> None]
    ELSE IF many_faces(faces)
    THEN [result |-> Raised(MSG_MULTIPLE_FACES, None),
          stages |-> <<"load", "detect">>, encoding |-> None]
    ELSE
    LET unknown_encoding == extract_face_embedding(frame, faces) IN
    IF unknown_encoding = None
    THEN [result |-> Raised(MSG_EXTRACT_FAILED, None),
          stages |-> <<"load", "detect", "extract">>, encoding |-> None]
    ELSE
    LET similarities == [i \in 1..Len(snap.encodings) |->
                            calculate_similarity(unknown_encoding, snap.encodings[i])]
    IN
    IF Len(similarities) = 0
    THEN [result |-> Raised(MSG_NO_KNOWN_FACES, None),
          stages |-> <<"load", "detect", "extract", "compare">>,
          encoding |-> unknown_encoding]
    ELSE
    LET max_similarity == max(similarities)
        best_match_idx == argmax(similarities)
    IN
    IF meets_tolerance(max_similarity, tolerance)
    THEN [result |-> Returned(snap.names[best_match_idx]),
          stages |-> <<"load", "detect", "extract", "compare">>,
          encoding |-> unknown_encoding]
    ELSE [result |-> Raised(MSG_NOT_REGISTERED, None),
          stages |-> <<"load", "detect", "extract", "compare">>,
          encoding |-> unknown_encoding]

\* ------------------------------------------------------------------------
\* database.py : the SQLite file behind DatabaseManager
\* ------------------------------------------------------------------------

\* Largest number of rows the students table is let grow to.
MaxStudents == 2

\* Tables that init_database drops before it creates its tables
\* (database.py:40-48).
DroppedTables ==
    {"quiz_results", "quizzes", "student_progress",
     "student_subject_preferences", "student_subject_difficulty",
     "content_translations", "generated_content", "subjects", "students"}

\* The CREATE TABLE statements of init_database, in their order
\* (database.py:51-197).
CreatedTables ==
    <<"students", "subjects", "student_subject_difficulty",
      "student_progress", "student_subject_preferences", "quizzes",
      "quiz_results", "generated_content", "content_translations",
      "chat_history">>

\* database.py:209-216  default_subjects (the names)
DefaultSubjects ==
    <<"Computer Science", "Programming", "Data Science", "Physics",
      "Geography", "History">>

\* Subject names a caller may pass to create_custom_subject.
SubjectNames == {"Chemistry", "Physics"}

\* database.py:55  CHECK (language_preference IN ('en', 'es'))
Languages == {"en", "es"}

\* Second arguments callers pass to create_student: the two languages, and
\* the level name that test_database.py:51 and the GUI (main.py:179) pass.
SecondArguments == Languages \cup {"High School"}

\* An exception other than the engine's RuntimeError.
Failed(type, msg) ==
    [status |-> "raised", type |-> type, msg |-> msg, arg |-> None]

\* A file that sqlite3.connect has just created: no table.
NoDatabase ==
    [tables |-> {}, subjects |-> <<>>, students |-> <<>>, student_seq |-> 0]

NoDbCall == [op |-> None, args |-> <<>>, result |-> None]

InSeq(x, seq) == \E i \in 1..Len(seq) : seq[i] = x

\* Variant: a plain INSERT that takes the row although the name is there.
insert_or_ignore_subject_always(subjects, name) == Append(subjects, name)

\* database.py:219-222  INSERT OR IGNORE INTO subjects, name being UNIQUE
insert_or_ignore_subject(subjects, name) ==
    IF InSeq(name, subjects) THEN subjects ELSE Append(subjects, name)

RECURSIVE InsertDefaultsFrom(_, _)
InsertDefaultsFrom(subjects, i) ==
    IF i > Len(DefaultSubjects) THEN subjects
    ELSE InsertDefaultsFrom(
            insert_or_ignore_subject(subjects, DefaultSubjects[i]), i + 1)

\* _init_default_subjects(conn)
init_default_subjects(subjects) == InsertDefaultsFrom(subjects, 1)

\* The CREATE TABLE statements from the i-th on: each is its own
\* transaction, and the first whose table is already there raises.
RECURSIVE CreateTablesFrom(_, _)
CreateTablesFrom(tables, i) ==
    IF i > Len(CreatedTables) THEN [tables |-> tables, failed |-> None]
    ELSE IF CreatedTables[i] \in tables
         THEN [tables |-> tables, failed |-> CreatedTables[i]]
         ELSE CreateTablesFrom(tables \cup {CreatedTables[i]}, i + 1)

\* init_database(force_reset): the file it leaves and how it ends.
init_database(d, force_reset) ==
    IF d.tables = {} \/ "students" \notin d.tables \/ force_reset
    THEN LET dropped == d.tables \ DroppedTables
             made    == CreateTablesFrom(dropped, 1)
         IN  IF made.failed # None
             THEN [db |-> [tables |-> made.tables, subjects |-> <<>>,
                           students |-> <<>>, student_seq |-> 0],
                   result |-> Failed("OperationalError", made.failed)]
             ELSE [db |-> [tables |-> made.tables,
                           subjects |-> init_default_subjects(<<>>),
                           students |-> <<>>, student_seq |-> 0],
                   result |-> Returned(None)]
    ELSE [db |-> [d EXCEPT !.subjects = init_default_subjects(@)],
          result |-> Returned(None)]

\* SELECT * FROM students WHERE name = ? ... fetchone(): the Optional[Dict]
\* it returns is a sequence of no row (None) or of one row.
get_student_by_name(d, name) ==
    IF \E i \in 1..Len(d.students) : d.students[i].name = name
    THEN <<d.students[CHOOSE i \in 1..Len(d.students) : d.students[i].name = name]>>
    ELSE <<>>

\* database.py:55  the CHECK constraint of students.language_preference
passes_check(language_preference) == language_preference \in Languages

\* create_student(name, language_preference): INSERT INTO students, the id
\* being AUTOINCREMENT; returns cursor.lastrowid.
create_student(d, name, language_preference) ==
    IF ~passes_check(language_preference)
    THEN [db |-> d, result |-> Failed("IntegrityError", "CHECK")]
    ELSE IF get_student_by_name(d, name) # <<>>
    THEN [db |-> d, result |-> Failed("IntegrityError", "UNIQUE")]
    ELSE [db |-> [d EXCEPT
                    !.students = Append(@,
                        [id |-> d.student_seq + 1, name |-> name,
                         language_preference |-> language_preference]),
                    !.student_seq = @ + 1],
          result |-> Returned(d.student_seq + 1)]

\* create_custom_subject(...): INSERT INTO subjects, name being UNIQUE.
\* (Its row in student_subject_preferences is not part of this model.)
create_custom_subject(d, name) ==
    IF InSeq(name, d.subjects)
    THEN [db |-> d, result |-> Failed("IntegrityError", "UNIQUE")]
    ELSE [db |-> [d EXCEPT !.subjects = Append(@, name)],
          result |-> Returned(Len(d.subjects) + 1)]

\* ------------------------------------------------------------------------
\* Inputs of the functions applied on their own
\* ------------------------------------------------------------------------

\* Largest coordinate of the vectors _calculate_similarity is applied to.
MaxCoord == 1

\* The vectors of three coordinates in 0..MaxCoord, the zero vector among
\* them.
SimDescriptors ==
    {<<x, y, z>> : x \in 0..MaxCoord, y \in 0..MaxCoord, z \in 0..MaxCoord}

\* A function with its two arguments, before it is applied.
SimilarityInputs ==
    {[fn |-> "_calculate_similarity", a |-> a, b |-> b,
      applied |-> FALSE, out |-> None] :
        a \in SimDescriptors, b \in SimDescriptors}

ExtractInputs ==
    {[fn |-> "extract_face_embedding", a |-> frame, b |-> detect_faces(frame),
      applied |-> FALSE, out |-> None] : frame \in Frames}

\* A descriptor between the duplicate threshold and identity:
\*   cos(DescU, DescN97) = 8 / (2 * sqrt(17)), about 0.970.
DescN97 == <<1, 2, 2, 2, 2>>

UnitDescriptors == Descriptors \cup {DescN97}

UnitFrames ==
    {[faces |-> n, emb |-> None] : n \in (0..MaxFaces) \ {1}}
        \cup {[faces |-> 1, emb |-> d] : d \in UnitDescriptors}

\* What load_all_encodings may return for a directory of up to MaxStore
\* files, whatever wrote them: names without repetition, one row per name.
UnitSnapshots ==
    UNION {{[names |-> ns, encodings |-> es] :
                ns \in {s \in [1..n -> Names] :
                            \A i, j \in 1..n : s[i] = s[j] => i = j},
                es \in [1..n -> UnitDescriptors]} : n \in 0..MaxStore}

\* register_face and authenticate on the same frame and the same snapshot.
EngineInputs ==
    {[fn |-> "register_face, authenticate",
      a |-> [name |-> name, frame |-> frame, tolerance |-> tolerance],
      b |-> snap, applied |-> FALSE, out |-> None] :
        name \in Names, frame \in UnitFrames, tolerance \in Tolerances,
        snap \in UnitSnapshots}

NoUnit == [fn |-> None, a |-> None, b |-> None, applied |-> FALSE, out |-> None]

\* ------------------------------------------------------------------------
\* State machine
\* ------------------------------------------------------------------------

\* store  the directory face_embeddings: file name -> saved array
\* pc     where each caller is: "idle"; "save" when its register_face has
\*        passed every check and save_encoding is what it does next; "done"
\*        when its call has raised or returned
\* call   the call of each caller: its inputs, the snapshot it loaded, its
\*        locals and how it ended
\* db     the SQLite file: its tables, the rows of subjects (names) and of
\*        students, and the AUTOINCREMENT counter of students
\* dbcall the last DatabaseManager call: its arguments and how it ended
\* unit   a function applied on its own: its arguments and what it gave
\* http   the last request to the authentication router and its answer
\* tr     TranslationService.translate_content: the rows of
\*        content_translations and the call in progress
\* gen    the in-memory generation_status and topics dictionaries of the
\*        subjects router and its background tasks
\* gui    LoginView: its three buttons, current_action, the worker thread
\*        and the callbacks queued with after()
NoCall ==
    [op |-> None, name |-> None, frame |-> None, tolerance |-> None,
     snapshot |-> None, encoding |-> None, result |-> None, stages |-> <<>>]

EmptyDir == [f \in {} |-> None]

EngineInit ==
    /\ store = EmptyDir
    /\ pc = [p \in Procs |-> "idle"]
    /\ call = [p \in Procs |-> NoCall]

DatabaseInit ==
    /\ db = NoDatabase
    /\ dbcall = NoDbCall

\* No request has been made, no translation asked for, nothing generated,
\* no window opened.
NoHttp ==
    [op |-> None, name |-> <<>>, image |-> None,
     exc |-> [type |-> None, code |-> 0, msg |-> None], status |-> 0]

NoTr == [rows |-> <<>>, pc |-> "off", call |-> None]

NoGen == [status |-> <<>>, topics |-> {}, tasks |-> <<>>, last |-> None]

NoGui == [view |-> None]

OthersInit ==
    /\ http = NoHttp
    /\ tr = NoTr
    /\ gen = NoGen
    /\ gui = NoGui

Init ==
    /\ EngineInit
    /\ DatabaseInit
    /\ unit = NoUnit
    /\ OthersInit

\* Files in the directory plus saves that are about to happen.
Reserved == Cardinality(DOMAIN store) + Cardinality({q \in Procs : pc[q] = "save"})

\* A finished call is handed back to its caller before a new call starts.
\* CallReturn is always enabled and only discards the finished call's
\* locals, so every behaviour of the directory and of the calls in progress
\* remains; two calls finished by their saves can still be seen together.
NoneDone == \A q \in Procs : pc[q] # "done"

\* register_face(name, frame), from its load_all_encodings() to the point
\* where it raises or is about to call save_encoding.  Everything after the
\* load works on the call's own snapshot.
RegisterFaceCall(p) ==
    /\ pc[p] = "idle"
    /\ NoneDone
    /\ \E name \in Names, frame \in Frames, order \in GlobOrders(store) :
       \E snap \in {load_all_encodings(store, order)} :
       \E r \in {register_face(name, frame, snap)} :
            /\ r.result.status = "pending" => Reserved < MaxStore
            /\ call' = [call EXCEPT ![p] =
                    [op |-> "register", name |-> name, frame |-> frame,
                     tolerance |-> None, snapshot |-> snap,
                     encoding |-> r.encoding, result |-> r.result,
                     stages |-> r.stages]]
            /\ pc' = [pc EXCEPT ![p] =
                    IF r.result.status = "pending" THEN "save" ELSE "done"]
    /\ UNCHANGED <<store, db, dbcall, unit, http, tr, gen, gui>>

\* save_encoding(name, new_encoding) and the normal return of register_face.
RegisterFaceSave(p) ==
    /\ pc[p] = "save"
    /\ store' = save_encoding(store, call[p].name, call[p].encoding)
    /\ call' = [call EXCEPT ![p].result = Returned(None),
                            ![p].stages = Append(@, "save")]
    /\ pc' = [pc EXCEPT ![p] = "done"]
    /\ UNCHANGED <<db, dbcall, unit, http, tr, gen, gui>>

\* authenticate(frame, tolerance): one load, then local computation only.
AuthenticateCall(p) ==
    /\ pc[p] = "idle"
    /\ NoneDone
    /\ \E frame \in Frames, tolerance \in Tolerances, order \in GlobOrders(store) :
       \E snap \in {load_all_encodings(store, order)} :
       \E r \in {authenticate(frame, tolerance, snap)} :
            call' = [call EXCEPT ![p] =
                    [op |-> "authenticate", name |-> None, frame |-> frame,
                     tolerance |-> tolerance, snapshot |-> snap,
                     encoding |-> r.encoding, result |-> r.result,
                     stages |-> r.stages]]
    /\ pc' = [pc EXCEPT ![p] = "done"]
    /\ UNCHANGED <<store, db, dbcall, unit, http, tr, gen, gui>>

\* The caller has received the outcome; the call's locals are discarded.
CallReturn(p) ==
    /\ pc[p] = "done"
    /\ pc' = [pc EXCEPT ![p] = "idle"]
    /\ call' = [call EXCEPT ![p] = NoCall]
    /\ UNCHANGED <<store, db, dbcall, unit, http, tr, gen, gui>>

Next ==
    \E p \in Procs :
        \/ RegisterFaceCall(p)
        \/ RegisterFaceSave(p)
        \/ AuthenticateCall(p)
        \/ CallReturn(p)

Spec == Init /\ [][Next]_vars

\* Calls one at a time: a call starts only when no other call is in progress.
OthersIdle(p) == \A q \in Procs \ {p} : pc[q] = "idle"

SeqRegisterFaceCall(p) == OthersIdle(p) /\ RegisterFaceCall(p)

SeqAuthenticateCall(p) == OthersIdle(p) /\ AuthenticateCall(p)

SeqNext ==
    \E p \in Procs :
        \/ SeqRegisterFaceCall(p)
        \/ RegisterFaceSave(p)
        \/ SeqAuthenticateCall(p)
        \/ CallReturn(p)

SpecSeq == Init /\ [][SeqNext]_vars

\* ------------------------------------------------------------------------
\* DatabaseManager on one file
\* ------------------------------------------------------------------------

\* DatabaseManager(db_path, force_reset), whose __init__ runs init_database,
\* and init_database(force_reset) run again on the same file.
InitDatabase ==
    /\ \E force_reset \in BOOLEAN :
       \E r \in {init_database(db, force_reset)} :
            /\ db' = r.db
            /\ dbcall' = [op |-> "init_database", args |-> <<force_reset>>,
                          result |-> r.result]
    /\ UNCHANGED <<store, pc, call, unit, http, tr, gen, gui>>

\* A DatabaseManager exists once its __init__ has run on the file.
Constructed == db.tables # {}

CreateStudent ==
    /\ Constructed
    /\ \E name \in Names, language_preference \in SecondArguments :
       \E r \in {create_student(db, name, language_preference)} :
            /\ r.result.status = "returned" => Len(db.students) < MaxStudents
            /\ db' = r.db
            /\ dbcall' = [op |-> "create_student",
                          args |-> <<name, language_preference>>,
                          result |-> r.result]
    /\ UNCHANGED <<store, pc, call, unit, http, tr, gen, gui>>

GetStudentByName ==
    /\ Constructed
    /\ \E name \in Names :
            dbcall' = [op |-> "get_student_by_name", args |-> <<name>>,
                       result |-> Returned(get_student_by_name(db, name))]
    /\ UNCHANGED <<store, pc, call, db, unit, http, tr, gen, gui>>

CreateCustomSubject ==
    /\ Constructed
    /\ \E name \in SubjectNames :
       \E r \in {create_custom_subject(db, name)} :
            /\ db' = r.db
            /\ dbcall' = [op |-> "create_custom_subject", args |-> <<name>>,
                          result |-> r.result]
    /\ UNCHANGED <<store, pc, call, unit, http, tr, gen, gui>>

DbNext ==
    \/ InitDatabase
    \/ CreateStudent
    \/ GetStudentByName
    \/ CreateCustomSubject

SpecDb == Init /\ [][DbNext]_vars

\* ------------------------------------------------------------------------
\* Functions applied on their own
\* ------------------------------------------------------------------------
UnitInit ==
    /\ EngineInit
    /\ DatabaseInit
    /\ OthersInit
    /\ \/ unit \in SimilarityInputs
       \/ unit \in ExtractInputs
       \/ unit \in EngineInputs

\* _calculate_similarity on (a, b), on (b, a) and on (a, a)
CalculateSimilarity ==
    /\ unit.fn = "_calculate_similarity"
    /\ ~unit.applied
    /\ unit' = [unit EXCEPT !.applied = TRUE, !.out =
                    [ab |-> calculate_similarity(unit.a, unit.b),
                     ba |-> calculate_similarity(unit.b, unit.a),
                     aa |-> calculate_similarity(unit.a, unit.a)]]
    /\ UNCHANGED <<store, pc, call, db, dbcall, http, tr, gen, gui>>

\* extract_face_embedding(frame, faces) on what detect_faces gave
ExtractFaceEmbedding ==
    /\ unit.fn = "extract_face_embedding"
    /\ ~unit.applied
    /\ unit' = [unit EXCEPT !.applied = TRUE,
                            !.out = extract_face_embedding(unit.a, unit.b)]
    /\ UNCHANGED <<store, pc, call, db, dbcall, http, tr, gen, gui>>

\* register_face(name, frame) up to its save, and authenticate(frame,
\* tolerance), both on the snapshot b.
EngineOnSnapshot ==
    /\ unit.fn = "register_face, authenticate"
    /\ ~unit.applied
    /\ unit' = [unit EXCEPT !.applied = TRUE, !.out =
                    [register     |-> register_face(unit.a.name, unit.a.frame, unit.b),
                     authenticate |-> authenticate(unit.a.frame, unit.a.tolerance,
                                                   unit.b)]]
    /\ UNCHANGED <<store, pc, call, db, dbcall, http, tr, gen, gui>>

UnitNext ==
    \/ CalculateSimilarity
    \/ ExtractFaceEmbedding
    \/ EngineOnSnapshot

SpecUnit == UnitInit /\ [][UnitNext]_vars

\* ------------------------------------------------------------------------
\* Vocabulary of the properties
\* ------------------------------------------------------------------------

\* cos(a, b) > t/100 and cos(a, b) >= t/100, from the definition of the
\* cosine, for vectors that are not zero.
CosGT(a, b, t) ==
    /\ NormSq(a) * NormSq(b) > 0
    /\ Dot(a, b) >= 0
    /\ 10000 * Dot(a, b) * Dot(a, b) > t * t * NormSq(a) * NormSq(b)

CosGE(a, b, t) ==
    /\ NormSq(a) * NormSq(b) > 0
    /\ Dot(a, b) >= 0
    /\ 10000 * Dot(a, b) * Dot(a, b) >= t * t * NormSq(a) * NormSq(b)

IsRegister(p) == pc[p] # "idle" /\ call[p].op = "register"

IsAuthenticate(p) == pc[p] # "idle" /\ call[p].op = "authenticate"

NameLoaded(c) == \E i \in DOMAIN c.snapshot.names : c.snapshot.names[i] = c.name

\* Some loaded descriptor is more than 0.95 similar to the frame's.
NearDuplicateLoaded(c) ==
    \E i \in DOMAIN c.snapshot.encodings :
        CosGT(c.frame.emb, c.snapshot.encodings[i], 95)

\* The directory holds exactly the records of the snapshot.
StoreIsSnapshot(snap) ==
    /\ DOMAIN store = {file_name(snap.names[i]) : i \in DOMAIN snap.names}
    /\ \A i \in DOMAIN snap.names :
        store[file_name(snap.names[i])] = snap.encodings[i]

\* ------------------------------------------------------------------------
\* C1: register_face with a name that load_all_encodings returned raises
\* the "already registered" name error whatever the frame holds, and no
\* stage after the load (no face detection) has run.
\* ------------------------------------------------------------------------
C1_NameAlreadyRegistered ==
    \A p \in Procs :
        (IsRegister(p) /\ NameLoaded(call[p])) =>
            /\ pc[p] = "done"
            /\ call[p].result = Raised(MSG_NAME_REGISTERED, call[p].name)
            /\ call[p].stages = <<"load">>

\* A stored name is registered again with a single face unlike any stored.
C1_Witness ==
    \E p \in Procs :
        /\ IsRegister(p) /\ pc[p] = "done"
        /\ NameLoaded(call[p])
        /\ call[p].frame.faces = 1
        /\ ~NearDuplicateLoaded(call[p])
        /\ call[p].result.msg = MSG_NAME_REGISTERED

\* ------------------------------------------------------------------------
\* C2: for a new name and a single-face frame, register_face raises the
\* "already registered as" error exactly when some loaded descriptor has
\* cosine similarity > 0.95 to the new one; otherwise (0.95 itself
\* included) it goes on to save, and its save writes the record under the
\* name and returns normally.
\* ------------------------------------------------------------------------
C2_Decision ==
    \A p \in Procs :
        (IsRegister(p) /\ ~NameLoaded(call[p]) /\ call[p].frame.faces = 1) =>
            /\ (call[p].result.status = "raised"
                    /\ call[p].result.msg = MSG_DUPLICATE_FACE)
                <=> NearDuplicateLoaded(call[p])
            /\ ~NearDuplicateLoaded(call[p]) =>
                \/ pc[p] = "save" /\ call[p].result = Pending
                \/ pc[p] = "done" /\ call[p].result = Returned(None)

C2_SaveStep ==
    \A p \in Procs :
        (pc[p] = "save" /\ pc'[p] # "save") =>
            /\ pc'[p] = "done"
            /\ call'[p].result = Returned(None)
            /\ file_name(call[p].name) \in DOMAIN store'
            /\ store'[file_name(call[p].name)] = call[p].frame.emb

C2_DuplicateThreshold == [][C2_Decision' /\ C2_SaveStep]_vars

\* A new face exactly 0.95 similar to a stored one has been registered.
C2_Witness ==
    \E p \in Procs :
        /\ IsRegister(p) /\ pc[p] = "done"
        /\ call[p].result = Returned(None)
        /\ \E i \in DOMAIN call[p].snapshot.encodings :
            /\ CosGE(call[p].frame.emb, call[p].snapshot.encodings[i], 95)
            /\ ~CosGT(call[p].frame.emb, call[p].snapshot.encodings[i], 95)
        /\ store[file_name(call[p].name)] = call[p].frame.emb

\* ------------------------------------------------------------------------
\* C3: on a non-empty snapshot and a single-face frame, authenticate
\* returns a name exactly when some loaded descriptor (hence the maximum)
\* has cosine similarity >= tolerance; the name returned is a loaded name,
\* and otherwise the call raises "not registered" and returns no name.
\* ------------------------------------------------------------------------
C3_AuthenticateThreshold ==
    \A p \in Procs :
        (IsAuthenticate(p) /\ Len(call[p].snapshot.names) > 0
            /\ call[p].frame.faces = 1) =>
            LET c == call[p]
                hit == \E i \in DOMAIN c.snapshot.encodings :
                        CosGE(c.frame.emb, c.snapshot.encodings[i], c.tolerance)
            IN  /\ pc[p] = "done"
                /\ hit => /\ c.result.status = "returned"
                          /\ \E i \in DOMAIN c.snapshot.names :
                                c.snapshot.names[i] = c.result.arg
                /\ ~hit => c.result = Raised(MSG_NOT_REGISTERED, None)

\* A probe exactly 0.85 similar to its best match is accepted at the
\* default tolerance.
C3_Witness ==
    \E p \in Procs :
        /\ IsAuthenticate(p)
        /\ call[p].frame.faces = 1
        /\ call[p].tolerance = DEF_TOLERANCE
        /\ call[p].result.status = "returned"
        /\ \A i \in DOMAIN call[p].snapshot.encodings :
            ~CosGT(call[p].frame.emb, call[p].snapshot.encodings[i], DEF_TOLERANCE)

\* ------------------------------------------------------------------------
\* C4: authenticate started on an empty directory raises "no registered
\* students" for every frame, with no stage after the load.
\* ------------------------------------------------------------------------
C4_Step ==
    \A p \in Procs :
        (pc[p] = "idle" /\ pc'[p] # "idle" /\ call'[p].op = "authenticate"
            /\ DOMAIN store = {}) =>
            /\ pc'[p] = "done"
            /\ call'[p].result = Raised(MSG_NO_STUDENTS, None)
            /\ call'[p].stages = <<"load">>

C4_EmptyStore == [][C4_Step]_vars

\* authenticate on an empty directory with a frame holding no face.
C4_Witness ==
    \E p \in Procs :
        /\ IsAuthenticate(p)
        /\ store = EmptyDir
        /\ call[p].frame.faces = 0
        /\ call[p].result.msg = MSG_NO_STUDENTS

\* ------------------------------------------------------------------------
\* C5: once the early check has passed (new name on enroll, non-empty
\* snapshot on authenticate), a frame with no face raises "no face
\* detected" and a frame with two or more raises "multiple faces".
\* ------------------------------------------------------------------------
EarlyCheckPassed(p) ==
    \/ IsRegister(p) /\ ~NameLoaded(call[p])
    \/ IsAuthenticate(p) /\ Len(call[p].snapshot.names) > 0

C5_FaceCount ==
    \A p \in Procs :
        EarlyCheckPassed(p) =>
            /\ call[p].frame.faces = 0 =>
                pc[p] = "done" /\ call[p].result = Raised(MSG_NO_FACE, None)
            /\ call[p].frame.faces >= 2 =>
                pc[p] = "done" /\ call[p].result = Raised(MSG_MULTIPLE_FACES, None)

\* authenticate against enrolled identities with several faces in the frame.
C5_Witness ==
    \E p \in Procs :
        /\ IsAuthenticate(p)
        /\ Len(call[p].snapshot.names) > 0
        /\ call[p].frame.faces >= 2
        /\ call[p].result.msg = MSG_MULTIPLE_FACES

\* ------------------------------------------------------------------------
\* C6: a call that ends by raising changes nothing in the directory, and
\* the directory changes only by the save of a register_face whose name
\* check, face-count check, extraction check and duplicate check have all
\* passed; that save writes that call's file and no other.
\* ------------------------------------------------------------------------
ChecksPassed(c) ==
    /\ c.op = "register"
    /\ ~NameLoaded(c)
    /\ c.frame.faces = 1
    /\ c.frame.emb # None
    /\ c.encoding = c.frame.emb
    /\ ~NearDuplicateLoaded(c)

C6_Step ==
    /\ \A p \in Procs :
        (pc[p] # "done" /\ pc'[p] = "done" /\ call'[p].result.status = "raised")
            => store' = store
    /\ store' # store =>
        \E p \in Procs :
            /\ pc[p] = "save" /\ pc'[p] = "done"
            /\ call'[p].result = Returned(None)
            /\ ChecksPassed(call[p])
            /\ \A f \in DOMAIN store : f # file_name(call[p].name) =>
                    f \in DOMAIN store' /\ store'[f] = store[f]
            /\ DOMAIN store' = DOMAIN store \cup {file_name(call[p].name)}

C6_NoMutationOnFailure == [][C6_Step]_vars

\* A registration rejected at the last check, the directory being what the
\* call loaded.
C6_Witness ==
    \E p \in Procs :
        /\ IsRegister(p) /\ pc[p] = "done"
        /\ call[p].result.msg = MSG_DUPLICATE_FACE
        /\ StoreIsSnapshot(call[p].snapshot)
        /\ DOMAIN store # {}

\* ------------------------------------------------------------------------
\* C7: once a name has a stored descriptor, no step replaces it: every
\* file of the directory keeps its content.
\* ------------------------------------------------------------------------
C7_Step ==
    \A f \in DOMAIN store : f \in DOMAIN store' /\ store'[f] = store[f]

C7_NoSilentOverwrite == [][C7_Step]_vars

\* ------------------------------------------------------------------------
\* C8: load_all_encodings never returns a name twice: the files of the
\* directory have pairwise different stems, and so has every snapshot a
\* call has loaded.
\* ------------------------------------------------------------------------
C8_OneDescriptorPerName ==
    /\ \A order \in GlobOrders(store) :
        LET names == load_all_encodings(store, order).names
        IN  \A i, j \in DOMAIN names : names[i] = names[j] => i = j
    /\ \A p \in Procs :
        pc[p] # "idle" =>
            \A i, j \in DOMAIN call[p].snapshot.names :
                call[p].snapshot.names[i] = call[p].snapshot.names[j] => i = j

\* Two names that differ only by a ".npy" suffix are both enrolled and
\* have been loaded by a call.
C8_Witness ==
    /\ file_name(<<"bob">>) \in DOMAIN store
    /\ file_name(<<"bob", ".npy">>) \in DOMAIN store
    /\ \E p \in Procs : pc[p] # "idle" /\ Len(call[p].snapshot.names) = 2

\* ------------------------------------------------------------------------
\* C9: with calls one at a time from an empty directory, no two stored
\* descriptors have cosine similarity > 0.95 to each other.
\* ------------------------------------------------------------------------
C9_NoNearDuplicatesSequential ==
    \A f, g \in DOMAIN store :
        f # g => ~CosGT(store[f], store[g], 95)

\* Two identities are stored and a third enrolment was rejected as a
\* duplicate face.
C9_Witness ==
    /\ Cardinality(DOMAIN store) >= 2
    /\ \E p \in Procs :
        /\ IsRegister(p) /\ pc[p] = "done"
        /\ call[p].result.msg = MSG_DUPLICATE_FACE

\* ------------------------------------------------------------------------
\* C10: two register_face calls with different new names and descriptors
\* more than 0.95 similar that loaded the same snapshot both pass the
\* duplicate check and both save: whenever two such calls have finished,
\* neither has raised and the directory holds both records.
\* ------------------------------------------------------------------------
RacingPair(p, q) ==
    /\ p # q
    /\ IsRegister(p) /\ IsRegister(q)
    /\ pc[p] = "done" /\ pc[q] = "done"
    /\ call[p].snapshot = call[q].snapshot
    /\ call[p].name # call[q].name
    /\ ~NameLoaded(call[p]) /\ ~NameLoaded(call[q])
    /\ call[p].frame.faces = 1 /\ call[q].frame.faces = 1
    /\ ~NearDuplicateLoaded(call[p]) /\ ~NearDuplicateLoaded(call[q])
    /\ CosGT(call[p].frame.emb, call[q].frame.emb, 95)

C10_RaceLeavesNearDuplicates ==
    \A p, q \in Procs :
        RacingPair(p, q) =>
            /\ call[p].result = Returned(None)
            /\ call[q].result = Returned(None)
            /\ file_name(call[p].name) \in DOMAIN store
            /\ file_name(call[q].name) \in DOMAIN store
            /\ store[file_name(call[p].name)] = call[p].frame.emb
            /\ store[file_name(call[q].name)] = call[q].frame.emb

\* Both racing calls have returned and the directory holds two records
\* more than 0.95 similar to each other.
C10_Witness ==
    \E p, q \in Procs :
        /\ RacingPair(p, q)
        /\ call[p].result = Returned(None)
        /\ call[q].result = Returned(None)
        /\ CosGT(store[file_name(call[p].name)], store[file_name(call[q].name)], 95)

\* ------------------------------------------------------------------------
\* Vocabulary of the properties: comparing two cosines
\* ------------------------------------------------------------------------
SignedSq(x) == IF x >= 0 THEN x * x ELSE -(x * x)

\* cos(probe, a) < cos(probe, b), for vectors that are not zero
CosLT(probe, a, b) ==
    SignedSq(Dot(probe, a)) * NormSq(b) < SignedSq(Dot(probe, b)) * NormSq(a)

\* An authenticate call at the default tolerance that reached the comparison.
ComparedAtDefault(p) ==
    /\ IsAuthenticate(p)
    /\ call[p].tolerance = DEF_TOLERANCE
    /\ call[p].frame.faces = 1
    /\ Len(call[p].snapshot.names) > 0

\* ------------------------------------------------------------------------
\* C11 (as stated): authenticate returns the name of every enrolled
\* identity whose descriptor is at least 0.85 similar to the frame's, and
\* raises "not registered" when no enrolled descriptor is that similar.
\* ------------------------------------------------------------------------
C11_ReturnsAnyMatch ==
    \A p \in Procs :
        ComparedAtDefault(p) =>
            LET c == call[p] IN
            /\ \A i \in DOMAIN c.snapshot.encodings :
                CosGE(c.frame.emb, c.snapshot.encodings[i], DEF_TOLERANCE)
                    => c.result = Returned(c.snapshot.names[i])
            /\ (\A i \in DOMAIN c.snapshot.encodings :
                    ~CosGE(c.frame.emb, c.snapshot.encodings[i], DEF_TOLERANCE))
                    => c.result = Raised(MSG_NOT_REGISTERED, None)

\* ------------------------------------------------------------------------
\* C11 (amended): when some enrolled descriptor is at least 0.85 similar to
\* the frame's, authenticate returns the name of an enrolled identity whose
\* similarity is the largest of the snapshot (and so at least 0.85); when
\* every enrolled descriptor is less than 0.85 similar, it raises "not
\* registered".
\* ------------------------------------------------------------------------
C11_ReturnsBestMatch ==
    \A p \in Procs :
        ComparedAtDefault(p) =>
            LET c == call[p]
                I == DOMAIN c.snapshot.encodings
            IN
            /\ (\E i \in I : CosGE(c.frame.emb, c.snapshot.encodings[i], DEF_TOLERANCE))
                => /\ c.result.status = "returned"
                   /\ \E i \in I :
                        /\ c.snapshot.names[i] = c.result.arg
                        /\ CosGE(c.frame.emb, c.snapshot.encodings[i], DEF_TOLERANCE)
                        /\ \A j \in I : ~CosLT(c.frame.emb, c.snapshot.encodings[i],
                                               c.snapshot.encodings[j])
            /\ (\A i \in I : ~CosGE(c.frame.emb, c.snapshot.encodings[i], DEF_TOLERANCE))
                => c.result = Raised(MSG_NOT_REGISTERED, None)

\* Two enrolled identities are at least 0.85 similar to the frame and the
\* call returns the more similar one, not the other.
C11_Witness ==
    \E p \in Procs :
        /\ ComparedAtDefault(p)
        /\ call[p].result.status = "returned"
        /\ \E j \in DOMAIN call[p].snapshot.encodings :
            /\ call[p].snapshot.names[j] # call[p].result.arg
            /\ CosGE(call[p].frame.emb, call[p].snapshot.encodings[j], DEF_TOLERANCE)
            /\ \E i \in DOMAIN call[p].snapshot.encodings :
                /\ call[p].snapshot.names[i] = call[p].result.arg
                /\ CosLT(call[p].frame.emb, call[p].snapshot.encodings[j],
                         call[p].snapshot.encodings[i])

\* ------------------------------------------------------------------------
\* C12: when several loaded descriptors have the largest similarity to the
\* frame's, the name authenticate returns is the one at the first index,
\* in the order load_all_encodings returned the records, that has it.
\* ------------------------------------------------------------------------
\* The indices of the snapshot whose similarity to the frame is the largest.
TopIndices(c) ==
    {i \in DOMAIN c.snapshot.encodings :
        \A j \in DOMAIN c.snapshot.encodings :
            ~CosLT(c.frame.emb, c.snapshot.encodings[i], c.snapshot.encodings[j])}

C12_FirstIndexOnTie ==
    \A p \in Procs :
        (IsAuthenticate(p) /\ call[p].result.status = "returned") =>
            \E i \in TopIndices(call[p]) :
                /\ \A j \in TopIndices(call[p]) : i <= j
                /\ call[p].result.arg = call[p].snapshot.names[i]

\* Two identities with different names tie for the largest similarity and
\* the call returns the one loaded first.
C12_Witness ==
    \E p \in Procs :
        /\ IsAuthenticate(p)
        /\ call[p].result.status = "returned"
        /\ \E i, j \in TopIndices(call[p]) :
            /\ i < j
            /\ call[p].snapshot.names[i] # call[p].snapshot.names[j]
            /\ call[p].result.arg = call[p].snapshot.names[i]

\* ------------------------------------------------------------------------
\* C13: for all descriptors a and b, the zero descriptor among them,
\* _calculate_similarity(a, b) equals _calculate_similarity(b, a) and
\* _calculate_similarity(a, a) equals 1.
\* ------------------------------------------------------------------------
\* s1 == s2 on floats: false when either is nan
FloatEq(s1, s2) ==
    /\ ~s1.nan
    /\ ~s2.nan
    /\ SignedSq(s1.dot) * s2.nsq = SignedSq(s2.dot) * s1.nsq

\* s == 1.0
FloatIsOne(s) == ~s.nan /\ s.dot > 0 /\ s.dot * s.dot = s.nsq

C13_SymmetricAndSelfSimilar ==
    (unit.fn = "_calculate_similarity" /\ unit.applied) =>
        /\ FloatEq(unit.out.ab, unit.out.ba)
        /\ FloatIsOne(unit.out.aa)

\* ------------------------------------------------------------------------
\* C14: each of the seven failure conditions reaches the caller as an
\* outcome whose kind (the type of what is raised) differs from the kind
\* of each of the other six, so that the message need not be compared.
\* ------------------------------------------------------------------------
FailureConditions ==
    {MSG_NO_FACE, MSG_MULTIPLE_FACES, MSG_EXTRACT_FAILED, MSG_NAME_REGISTERED,
     MSG_DUPLICATE_FACE, MSG_NO_STUDENTS, MSG_NOT_REGISTERED}

C14_FailuresDistinctByKind ==
    \A p \in Procs :
        (pc[p] = "done" /\ call[p].result.status = "raised") =>
            \A m \in FailureConditions \ {call[p].result.msg} :
                Raised(m, None).type # call[p].result.type

\* ------------------------------------------------------------------------
\* C15: after an init_database that returned, the tables students, subjects
\* and student_progress exist and each of the six default subjects is in
\* subjects exactly once; with no other subject in the table the count is
\* six, also when init_database has run again on the same file.
\* ------------------------------------------------------------------------
IsDefaultSubject(name) == \E k \in 1..Len(DefaultSubjects) : DefaultSubjects[k] = name

C15_InitDatabase ==
    (dbcall.op = "init_database" /\ dbcall.result.status = "returned") =>
        /\ {"students", "subjects", "student_progress"} \subseteq db.tables
        /\ \A k \in 1..Len(DefaultSubjects) :
            Cardinality({i \in 1..Len(db.subjects) :
                            db.subjects[i] = DefaultSubjects[k]}) = 1
        /\ (\A i \in 1..Len(db.subjects) : IsDefaultSubject(db.subjects[i]))
            => Len(db.subjects) = 6

\* init_database has run again, without force_reset, on a file that already
\* holds a student, and the subjects are still the six.
C15_Witness ==
    /\ dbcall.op = "init_database"
    /\ dbcall.args = <<FALSE>>
    /\ dbcall.result.status = "returned"
    /\ Len(db.students) > 0
    /\ Len(db.subjects) = 6

\* ------------------------------------------------------------------------
\* C16: create_student(name, second argument) for a name not yet in the
\* table returns a positive id, whatever the second argument is, and
\* get_student_by_name(name) then returns a row with that name whose
\* stored preference is the second argument.
\* ------------------------------------------------------------------------
C16_Step ==
    (/\ dbcall'.op = "create_student"
     /\ get_student_by_name(db, dbcall'.args[1]) = <<>>)
        => /\ dbcall'.result.status = "returned"
           /\ dbcall'.result.arg > 0
           /\ \E row \in {get_student_by_name(db', dbcall'.args[1])} :
                /\ row # <<>>
                /\ row[1].name = dbcall'.args[1]
                /\ row[1].language_preference = dbcall'.args[2]

C16_CreateThenGet == [][C16_Step]_vars

\* ------------------------------------------------------------------------
\* C17: the stages of a call are an initial part of load, detect, extract,
\* compare, save (save on register only), so none is repeated or out of
\* order; the extraction is reached only with exactly one face located and
\* the comparison only with a descriptor extracted; a call ends in one
\* outcome, raised or returned, which no later step changes, and the save
\* stage is what ends a successful register.
\* ------------------------------------------------------------------------
StageOrder == <<"load", "detect", "extract", "compare", "save">>

C17_Stages(p) ==
    LET c == call[p] IN
    /\ Len(c.stages) >= 1
    /\ Len(c.stages) <= IF c.op = "register" THEN 5 ELSE 4
    /\ \A k \in 1..Len(c.stages) : c.stages[k] = StageOrder[k]
    /\ Len(c.stages) >= 3 => c.frame.faces = 1
    /\ Len(c.stages) >= 4 => c.frame.emb \in Descriptors /\ c.encoding = c.frame.emb
    /\ pc[p] = "save" => c.result.status = "pending" /\ Len(c.stages) = 4
    /\ pc[p] = "done" => c.result.status \in {"raised", "returned"}
    /\ Len(c.stages) = 5 <=> (c.op = "register" /\ c.result.status = "returned")

C17_Step ==
    \A p \in Procs :
        /\ pc'[p] # "idle" => C17_Stages(p)'
        /\ pc[p] = "save" =>
            /\ pc'[p] \in {"save", "done"}
            /\ pc'[p] = "done" => call'[p].stages = Append(call[p].stages, "save")
        /\ pc[p] = "done" =>
            /\ pc'[p] \in {"done", "idle"}
            /\ pc'[p] = "done" => call'[p] = call[p]

C17_StagesInOrder == [][C17_Step]_vars

\* A register_face call that went through the five stages and returned.
C17_Witness ==
    \E p \in Procs :
        /\ pc[p] = "done"
        /\ call[p].op = "register"
        /\ call[p].stages = StageOrder
        /\ call[p].result.status = "returned"

\* ------------------------------------------------------------------------
\* C18: extract_face_embedding returns None only for a single region whose
\* descriptor cannot be computed, never to signal a number of faces other
\* than one.
\* ------------------------------------------------------------------------
C18_NoneOnlyForOneRegion ==
    (unit.fn = "extract_face_embedding" /\ unit.applied /\ unit.out = None)
        => Len(unit.b) = 1

\* ------------------------------------------------------------------------
\* C19: an authenticate call leaves the directory as it is, whether it
\* returns or raises, and has no save stage; a register_face call that
\* returns has saved exactly once (its file then holds its descriptor and
\* every other file is as before), one that raises has not saved; the
\* directory changes only by the save of one call.
\* ------------------------------------------------------------------------
Saves(c) == Cardinality({k \in 1..Len(c.stages) : c.stages[k] = "save"})

C19_Step ==
    /\ \A p \in Procs :
        (pc[p] = "idle" /\ pc'[p] # "idle" /\ call'[p].op = "authenticate")
            => store' = store /\ Saves(call'[p]) = 0
    /\ \A p \in Procs :
        (pc[p] # "done" /\ pc'[p] = "done" /\ call'[p].op = "register") =>
            /\ call'[p].result.status = "returned" =>
                /\ Saves(call'[p]) = 1
                /\ store' = [f \in DOMAIN store \cup {file_name(call[p].name)} |->
                                IF f = file_name(call[p].name)
                                THEN call[p].frame.emb ELSE store[f]]
            /\ call'[p].result.status = "raised" =>
                /\ Saves(call'[p]) = 0
                /\ store' = store
    /\ store' # store =>
        Cardinality({p \in Procs : pc[p] = "save" /\ pc'[p] = "done"}) = 1

C19_SaveOnceOnSuccess == [][C19_Step]_vars

\* An authenticate call has returned a name and the directory is still the
\* snapshot it loaded: the files the earlier register_face calls saved.
C19_Witness ==
    \E p \in Procs :
        /\ IsAuthenticate(p)
        /\ pc[p] = "done"
        /\ call[p].result.status = "returned"
        /\ Cardinality(DOMAIN store) = MaxStore
        /\ StoreIsSnapshot(call[p].snapshot)

\* ------------------------------------------------------------------------
\* C20: whatever the directory holds and in whatever order it is
\* enumerated, load_all_encodings returns as many names as rows, one per
\* saved file, row i being the descriptor saved under names[i]; the empty
\* directory gives no name and no row; the snapshot of a call is such a
\* load, and the record a register_face has just saved is loaded under
\* exactly the name it was saved with.
\* ------------------------------------------------------------------------
C20_Loaded(snap) ==
    /\ Len(snap.names) = Len(snap.encodings)
    /\ Len(snap.names) = Cardinality(DOMAIN store)
    /\ \A i \in DOMAIN snap.names :
        /\ file_name(snap.names[i]) \in DOMAIN store
        /\ store[file_name(snap.names[i])] = snap.encodings[i]
    /\ \A f \in DOMAIN store : \E i \in DOMAIN snap.names : file_name(snap.names[i]) = f

C20_EveryLoad ==
    /\ \A order \in GlobOrders(store) : C20_Loaded(load_all_encodings(store, order))
    /\ store = EmptyDir =>
        \A order \in GlobOrders(store) :
            load_all_encodings(store, order) = [names |-> <<>>, encodings |-> <<>>]

C20_Step ==
    /\ store = EmptyDir => C20_EveryLoad
    /\ store' # store => C20_EveryLoad'
    /\ \A p \in Procs :
        /\ (pc[p] = "idle" /\ pc'[p] # "idle") => C20_Loaded(call[p].snapshot)'
        /\ (pc[p] = "save" /\ pc'[p] = "done") =>
            \A order \in GlobOrders(store') :
            \E snap \in {load_all_encodings(store', order)} :
                \E i \in 1..Len(order) :
                    /\ snap.names[i] = call[p].name
                    /\ snap.encodings[i] = call[p].encoding

C20_LoadReturnsSaved == [][C20_Step]_vars

\* A call has loaded two records with different descriptors, one of them
\* under a name that itself ends in ".npy".
C20_Witness ==
    \E p \in Procs :
        /\ pc[p] # "idle"
        /\ Len(call[p].snapshot.names) = 2
        /\ call[p].snapshot.encodings[1] # call[p].snapshot.encodings[2]
        /\ \E i \in 1..2 : call[p].snapshot.names[i] = <<"bob", ".npy">>
        /\ StoreIsSnapshot(call[p].snapshot)

\* ------------------------------------------------------------------------
\* C21: a call loads its snapshot from the directory as it is when the
\* call starts, and no file ever leaves the directory: a register_face
\* started while the file of its name is there raises "already
\* registered", and an authenticate started on a directory that holds a
\* file does not raise "no registered students".
\* ------------------------------------------------------------------------
C21_Step ==
    /\ DOMAIN store \subseteq DOMAIN store'
    /\ \A p \in Procs :
        (pc[p] = "idle" /\ pc'[p] # "idle") =>
            /\ (StoreIsSnapshot(call[p].snapshot))'
            /\ (call'[p].op = "register"
                    /\ file_name(call'[p].name) \in DOMAIN store)
                => call'[p].result = Raised(MSG_NAME_REGISTERED, call'[p].name)
            /\ (call'[p].op = "authenticate" /\ DOMAIN store # {})
                => call'[p].result.msg # MSG_NO_STUDENTS

C21_FreshSnapshot == [][C21_Step]_vars

\* With two files saved, a register_face of a saved name was started on a
\* frame without a face and was refused for its name.
C21_Witness ==
    \E p \in Procs :
        /\ IsRegister(p) /\ pc[p] = "done"
        /\ Cardinality(DOMAIN store) = 2
        /\ file_name(call[p].name) \in DOMAIN store
        /\ call[p].frame.faces = 0
        /\ call[p].result.msg = MSG_NAME_REGISTERED

\* ------------------------------------------------------------------------
\* C22: when register_face raises the duplicate-face error, the name it
\* reports is the name at the first index of the snapshot whose descriptor
\* is more than 0.95 similar to the new one.
\* ------------------------------------------------------------------------
\* The indices of the snapshot more than 0.95 similar to the descriptor d.
NearIndices(d, snap) ==
    {i \in DOMAIN snap.encodings : CosGT(d, snap.encodings[i], DUPLICATE_THRESHOLD)}

EngineApplied == unit.fn = "register_face, authenticate" /\ unit.applied

C22_FirstDuplicateNamed ==
    (EngineApplied /\ unit.out.register.result.msg = MSG_DUPLICATE_FACE) =>
        \E i \in NearIndices(unit.a.frame.emb, unit.b) :
            /\ \A j \in NearIndices(unit.a.frame.emb, unit.b) : i <= j
            /\ unit.out.register.result.arg = unit.b.names[i]

\* The identity reported is more than 0.95 similar to the new face, and a
\* later identity of the snapshot is more similar still.
C22_Witness ==
    /\ EngineApplied
    /\ unit.out.register.result.msg = MSG_DUPLICATE_FACE
    /\ \E i, j \in NearIndices(unit.a.frame.emb, unit.b) :
        /\ i < j
        /\ unit.out.register.result.arg = unit.b.names[i]
        /\ CosLT(unit.a.frame.emb, unit.b.encodings[i], unit.b.encodings[j])

\* ------------------------------------------------------------------------
\* C23: on any snapshot and any single-face frame, when register_face
\* raises the duplicate-face error, authenticate at the default tolerance
\* on the same frame and snapshot returns a name, and the descriptor loaded
\* under that name is more than 0.95 similar to the frame's.
\* ------------------------------------------------------------------------
C23_DuplicateImpliesRecognized ==
    (/\ EngineApplied
     /\ unit.a.tolerance = DEF_TOLERANCE
     /\ unit.out.register.result.msg = MSG_DUPLICATE_FACE)
        => /\ unit.a.frame.faces = 1
           /\ unit.out.authenticate.result.status = "returned"
           /\ \E i \in DOMAIN unit.b.names :
                /\ unit.b.names[i] = unit.out.authenticate.result.arg
                /\ CosGT(unit.a.frame.emb, unit.b.encodings[i], 95)

\* The enrolment is refused for one identity and authenticate returns
\* another, more similar one.
C23_Witness ==
    /\ EngineApplied
    /\ unit.a.tolerance = DEF_TOLERANCE
    /\ unit.out.register.result.msg = MSG_DUPLICATE_FACE
    /\ unit.out.authenticate.result.status = "returned"
    /\ unit.out.authenticate.result.arg # unit.out.register.result.arg

\* ------------------------------------------------------------------------
\* C24: with calls one at a time, a descriptor once saved under a name
\* stays in its file, and authenticate on a frame with that descriptor
\* returns exactly that name, at either tolerance, however many other
\* names have been registered since; every other stored descriptor is at
\* most 0.95 similar to it.
\* ------------------------------------------------------------------------
C24_Step ==
    /\ \A f \in DOMAIN store : f \in DOMAIN store' /\ store'[f] = store[f]
    /\ \A p \in Procs :
        (pc[p] = "idle" /\ pc'[p] # "idle" /\ call'[p].op = "authenticate"
            /\ call'[p].frame.faces = 1) =>
            \A n \in Names :
                (file_name(n) \in DOMAIN store
                    /\ store[file_name(n)] = call'[p].frame.emb) =>
                    /\ call'[p].result = Returned(n)
                    /\ \A f \in DOMAIN store \ {file_name(n)} :
                        ~CosGT(store[f], store[file_name(n)], 95)

C24_RegisterThenAuthenticate == [][C24_Step]_vars

\* Two identities are enrolled and authenticate, on the descriptor of one
\* of them, has returned its name.
C24_Witness ==
    \E p \in Procs :
        /\ IsAuthenticate(p) /\ pc[p] = "done"
        /\ Cardinality(DOMAIN store) = 2
        /\ call[p].result.status = "returned"
        /\ file_name(call[p].result.arg) \in DOMAIN store
        /\ store[file_name(call[p].result.arg)] = call[p].frame.emb

\* ------------------------------------------------------------------------
\* api/auth.py : POST /register and POST /login
\* ------------------------------------------------------------------------

\* fastapi.HTTPException(status_code, detail): an Exception that is not a
\* RuntimeError.
HTTPException(status_code, detail) ==
    [type |-> "HTTPException", code |-> status_code, msg |-> detail]

\* What the body of a handler ended with: an exception of the engine or of
\* sqlite3 (no status code of its own), or the normal return.
Exc(result) == [type |-> result.type, code |-> 0, msg |-> result.msg]

NoExc == [type |-> None, code |-> 0, msg |-> None]

\* image_data: a string that decodes to a frame, or one that does not.
Images ==
    {[decodable |-> FALSE, frame |-> [faces |-> 0, emb |-> None]]}
        \cup {[decodable |-> TRUE, frame |-> f] : f \in Frames}

\* decode_base64_image(base64_string)
decode_base64_image(image_data) ==
    IF image_data.decodable
    THEN NoExc
    ELSE HTTPException(400, "Invalid image data")

\* Variant: the face is registered and no student row is written.
register_student_try_face_only(dir, d, name, image_data, order) ==
    LET r == register_face(name, image_data.frame, load_all_encodings(dir, order))
    IN  IF r.result.status # "pending"
        THEN [store |-> dir, db |-> d, exc |-> Exc(r.result)]
        ELSE [store |-> save_encoding(dir, name, r.encoding), db |-> d,
              exc |-> NoExc]

\* register_student, the body of its try statement: what it leaves in the
\* directory and in the database, and the exception it ends with.
register_student_try(dir, d, name, image_data, order) ==
    IF get_student_by_name(d, name) # <<>>
    THEN [store |-> dir, db |-> d,
          exc |-> HTTPException(400, "Student already exists")]
    ELSE IF decode_base64_image(image_data) # NoExc
    THEN [store |-> dir, db |-> d, exc |-> decode_base64_image(image_data)]
    ELSE
    LET r == register_face(name, image_data.frame, load_all_encodings(dir, order))
    IN  IF r.result.status # "pending"
        THEN [store |-> dir, db |-> d, exc |-> Exc(r.result)]
        ELSE
        LET c == create_student(d, name, "en")
        IN  [store |-> save_encoding(dir, name, r.encoding),
             db    |-> c.db,
             exc   |-> IF c.result.status = "raised" THEN Exc(c.result) ELSE NoExc]

\* login_student, the body of its try statement.  update_student_login
\* writes last_login only.
login_student_try(dir, d, image_data, order) ==
    IF decode_base64_image(image_data) # NoExc
    THEN [name |-> <<>>, exc |-> decode_base64_image(image_data)]
    ELSE
    LET a == authenticate(image_data.frame, DEF_TOLERANCE,
                          load_all_encodings(dir, order))
    IN  IF a.result.status = "raised"
        THEN [name |-> <<>>, exc |-> Exc(a.result)]
        ELSE IF get_student_by_name(d, a.result.arg) = <<>>
        THEN [name |-> a.result.arg,
              exc |-> HTTPException(404, "Student not found in database")]
        ELSE [name |-> a.result.arg, exc |-> NoExc]

\* The except clauses of a handler, in their order: RuntimeError is answered
\* with the handler's own code, every other Exception with 500.
except_clauses(exc, runtime_error_code) ==
    IF exc.type = None THEN 200
    ELSE IF exc.type = "RuntimeError" THEN runtime_error_code
    ELSE 500

\* The database file exists with its tables when the router is imported
\* (database.py ends with db = DatabaseManager()).
ApiInit ==
    /\ EngineInit
    /\ db = init_database(NoDatabase, FALSE).db
    /\ dbcall = NoDbCall
    /\ unit = NoUnit
    /\ OthersInit

\* POST /register.  The handler is a coroutine without an await: the event
\* loop runs it from its first line to its answer.
RegisterStudent ==
    /\ \E name \in Names, image_data \in Images, order \in GlobOrders(store) :
       \E r \in {register_student_try(store, db, name, image_data, order)} :
            /\ r.store # store =>
                    /\ Cardinality(DOMAIN store) < MaxStore
                    /\ Len(db.students) < MaxStudents
            /\ store' = r.store
            /\ db' = r.db
            /\ http' = [op |-> "register", name |-> name, image |-> image_data,
                        exc |-> r.exc, status |-> except_clauses(r.exc, 400)]
    /\ UNCHANGED <<pc, call, dbcall, unit, tr, gen, gui>>

\* POST /login
LoginStudent ==
    /\ \E image_data \in Images, order \in GlobOrders(store) :
       \E r \in {login_student_try(store, db, image_data, order)} :
            http' = [op |-> "login", name |-> r.name, image |-> image_data,
                     exc |-> r.exc, status |-> except_clauses(r.exc, 401)]
    /\ UNCHANGED <<store, pc, call, db, dbcall, unit, tr, gen, gui>>

ApiNext ==
    \/ RegisterStudent
    \/ LoginStudent

SpecApi == ApiInit /\ [][ApiNext]_vars

\* ------------------------------------------------------------------------
\* C25  POST /register answers 400 when the name is already in the
\* database, when the image data is invalid and when register_face raises
\* its RuntimeError; POST /login answers 401 when authenticate raises its
\* RuntimeError and 404 when the authenticated name has no student row; 500
\* is answered only for other exceptions.
\* ------------------------------------------------------------------------
C25_Step ==
    /\ http'.op = "register" =>
            /\ get_student_by_name(db, http'.name) # <<>> => http'.status = 400
            /\ ~http'.image.decodable => http'.status = 400
            /\ http'.exc.type = "RuntimeError" => http'.status = 400
    /\ http'.op = "login" =>
            /\ http'.exc.type = "RuntimeError" => http'.status = 401
            /\ (/\ http'.name # <<>>
                /\ get_student_by_name(db, http'.name) = <<>>) => http'.status = 404
    /\ http'.status = 500 =>
            http'.exc.type \notin {None, "RuntimeError", "HTTPException"}

C25_StatusPerCause == [][C25_Step]_vars

\* ------------------------------------------------------------------------
\* C26  After any sequence of register requests every name with a saved
\* face descriptor has a student row, so a login never ends with 'Student
\* not found in database'; and a register request whose register_face fails
\* creates no student row.
\* ------------------------------------------------------------------------
FaceNames(dir) == {stem(f) : f \in glob_npy(dir)}

C26_Step ==
    /\ \A name \in FaceNames(store') : get_student_by_name(db', name) # <<>>
    /\ http'.op = "login" => http'.exc.code # 404
    /\ (http'.op = "register" /\ http'.exc.type = "RuntimeError") => db' = db
    /\ store' # store => Len(db'.students) = Len(db.students) + 1

C26_AllOrNothing == [][C26_Step]_vars

C26_Witness ==
    /\ http.op = "register"
    /\ http.exc.type = "RuntimeError"
    /\ FaceNames(store) # {}
    /\ Len(db.students) = Cardinality(FaceNames(store))

\* ------------------------------------------------------------------------
\* C27  init_database(force_reset=True) on a file that init_database has
\* already initialised returns without error and leaves every application
\* table recreated empty, with the six default subjects and nothing else.
\* ------------------------------------------------------------------------
Initialised(d) == \A i \in 1..Len(CreatedTables) : CreatedTables[i] \in d.tables

C27_Step ==
    (/\ Initialised(db)
     /\ dbcall'.op = "init_database"
     /\ dbcall'.args = <<TRUE>>)
        => /\ dbcall'.result.status = "returned"
           /\ Initialised(db')
           /\ db'.subjects = DefaultSubjects
           /\ db'.students = <<>>

C27_ForceResetLeavesCleanState == [][C27_Step]_vars

\* ------------------------------------------------------------------------
\* translation_service.py : TranslationService.translate_content
\* ------------------------------------------------------------------------

\* Largest max_retries a caller passes (the default, which every caller in
\* the repository uses, is 1).
MaxRetries == 2

\* translation_service.py:21
supported_languages == {"es"}

\* Rows of generated_content, and the content ids a caller may pass.
Contents == {"c1", "c2"}

ContentIds == Contents \cup {"c0"}

TargetLanguages == supported_languages \cup {"fr"}

\* What query_llm and _parse_translation_response make of one request: a
\* response that parses and validates, one that does not, or an exception
\* of query_llm.
Responses == {"parsed", "unparsable", "raised"}

\* content_translations has UNIQUE(content_id, language_code): its rows are
\* a function of that pair.
get_content_translation(rows, content_id, language_code) ==
    IF <<content_id, language_code>> \in DOMAIN rows
    THEN <<rows[<<content_id, language_code>>]>>
    ELSE <<>>

\* INSERT OR IGNORE ... VALUES (?, ?, ?, '', 'pending')
create_translation_entry(rows, content_id, language_code) ==
    IF <<content_id, language_code>> \in DOMAIN rows
    THEN rows
    ELSE [k \in (DOMAIN rows) \cup {<<content_id, language_code>>} |->
            IF k = <<content_id, language_code>>
            THEN [translation_status |-> "pending", translated_content_json |-> ""]
            ELSE rows[k]]

\* UPDATE content_translations SET translation_status = ? WHERE ...
update_translation_status(rows, content_id, language_code, status) ==
    [k \in DOMAIN rows |->
        IF k = <<content_id, language_code>>
        THEN [rows[k] EXCEPT !.translation_status = status]
        ELSE rows[k]]

\* INSERT OR REPLACE INTO content_translations
save_content_translation(rows, content_id, language_code, translated_content_json, translation_status) ==
    [k \in (DOMAIN rows) \cup {<<content_id, language_code>>} |->
        IF k = <<content_id, language_code>>
        THEN [translation_status |-> translation_status,
              translated_content_json |-> translated_content_json]
        ELSE rows[k]]

\* Variant: one more retry than max_retries.
may_retry_le(retry_count, max_retries) == retry_count <= max_retries

\* translation_service.py:103
may_retry(retry_count, max_retries) == retry_count < max_retries

\* translate_content from its first line to the point where it returns
\* without a translation attempt or is about to call query_llm.
translate_content_enter(rows, content_id, target_language) ==
    IF target_language \notin supported_languages
    THEN [rows |-> rows, pc |-> "done", result |-> None]
    ELSE IF content_id \notin Contents
    THEN [rows |-> rows, pc |-> "done", result |-> None]
    ELSE
    LET existing_translation ==
            get_content_translation(rows, content_id, target_language)
    IN  IF /\ existing_translation # <<>>
           /\ existing_translation[1].translation_status = "completed"
        THEN [rows |-> rows, pc |-> "done", result |-> "completed"]
        ELSE [rows |-> update_translation_status(
                            IF existing_translation = <<>>
                            THEN create_translation_entry(rows, content_id,
                                                          target_language)
                            ELSE rows,
                            content_id, target_language, "in_progress"),
              pc |-> "query", result |-> None]

NoTranslateCall ==
    [content_id |-> None, target_language |-> None, retry_count |-> 0,
     max_retries |-> 0, attempts |-> 0, response |-> None, result |-> None]

TrInit ==
    /\ EngineInit
    /\ DatabaseInit
    /\ unit = NoUnit
    /\ http = NoHttp
    /\ gen = NoGen
    /\ gui = NoGui
    /\ tr = [rows |-> <<>>, pc |-> "idle", call |-> NoTranslateCall]

\* queue_translation(content_id, 'es') for content that was just saved
QueueTranslation ==
    /\ tr.pc = "idle"
    /\ \E content_id \in Contents :
            tr' = [tr EXCEPT !.rows = create_translation_entry(@, content_id, "es")]
    /\ UNCHANGED <<store, pc, call, db, dbcall, unit, http, gen, gui>>

\* translate_content(content_id, target_language, 0, max_retries), up to
\* its first query_llm or its return.
TranslateContent ==
    /\ tr.pc = "idle"
    /\ \E content_id \in ContentIds, target_language \in TargetLanguages,
          max_retries \in 0..MaxRetries :
       \E e \in {translate_content_enter(tr.rows, content_id, target_language)} :
            tr' = [rows |-> e.rows, pc |-> e.pc,
                   call |-> [content_id |-> content_id,
                             target_language |-> target_language,
                             retry_count |-> 0, max_retries |-> max_retries,
                             attempts |-> IF e.pc = "query" THEN 1 ELSE 0,
                             response |-> None, result |-> e.result]]
    /\ UNCHANGED <<store, pc, call, db, dbcall, unit, http, gen, gui>>

\* query_llm answers or raises; the response is parsed; the translation is
\* saved, or the except clause decides between a retry and 'failed'.
LlmReturns ==
    /\ tr.pc = "query"
    /\ \E response \in Responses :
            tr' =
                IF response = "parsed"
                THEN [tr EXCEPT
                        !.rows = save_content_translation(@, tr.call.content_id,
                                    tr.call.target_language, "translated",
                                    "completed"),
                        !.pc = "done",
                        !.call.response = response,
                        !.call.result = "completed"]
                ELSE IF may_retry(tr.call.retry_count, tr.call.max_retries)
                THEN [tr EXCEPT !.pc = "sleep", !.call.response = response]
                ELSE [tr EXCEPT
                        !.rows = update_translation_status(@, tr.call.content_id,
                                    tr.call.target_language, "failed"),
                        !.pc = "done",
                        !.call.response = response,
                        !.call.result = None]
    /\ UNCHANGED <<store, pc, call, db, dbcall, unit, http, gen, gui>>

\* After time.sleep: translate_content(..., retry_count + 1, max_retries)
Retry ==
    /\ tr.pc = "sleep"
    /\ \E e \in {translate_content_enter(tr.rows, tr.call.content_id,
                                         tr.call.target_language)} :
            tr' = [tr EXCEPT
                    !.rows = e.rows,
                    !.pc = e.pc,
                    !.call.retry_count = @ + 1,
                    !.call.attempts = IF e.pc = "query" THEN @ + 1 ELSE @,
                    !.call.result = e.result]
    /\ UNCHANGED <<store, pc, call, db, dbcall, unit, http, gen, gui>>

\* The caller has the result.
TranslateReturn ==
    /\ tr.pc = "done"
    /\ tr' = [tr EXCEPT !.pc = "idle", !.call = NoTranslateCall]
    /\ UNCHANGED <<store, pc, call, db, dbcall, unit, http, gen, gui>>

TrNext ==
    \/ QueueTranslation
    \/ TranslateContent
    \/ LlmReturns
    \/ Retry
    \/ TranslateReturn

\* query_llm ends (with a response or an exception) and time.sleep ends.
SpecTr ==
    /\ TrInit
    /\ [][TrNext]_vars
    /\ WF_vars(LlmReturns)
    /\ WF_vars(Retry)

\* ------------------------------------------------------------------------
\* C28  translate_content for a supported language and existing content
\* makes at most max_retries + 1 attempts and ends; the status becomes
\* 'failed' only when the last attempt has failed, is 'in_progress' during
\* each attempt, becomes 'completed' exactly when an attempt's response
\* parses, and a translation already 'completed' is returned without a
\* query and without a change of status.
\* ------------------------------------------------------------------------
TrKey == <<tr.call.content_id, tr.call.target_language>>

TrStatus(t) ==
    IF <<t.call.content_id, t.call.target_language>> \in DOMAIN t.rows
    THEN t.rows[<<t.call.content_id, t.call.target_language>>].translation_status
    ELSE "absent"

C28_Step ==
    /\ (tr'.pc \in {"query", "sleep", "done"} /\ tr.pc # "idle") =>
            /\ (TrStatus(tr') = "failed" /\ TrStatus(tr) # "failed") =>
                    /\ tr.pc = "query"
                    /\ tr'.call.response # "parsed"
                    /\ tr'.call.attempts = tr'.call.max_retries + 1
                    /\ tr'.pc = "done"
            /\ (TrStatus(tr') = "completed" /\ TrStatus(tr) # "completed") <=>
                    (tr.pc = "query" /\ tr'.call.response = "parsed")
    /\ (/\ tr.pc = "idle"
        /\ tr'.pc # "idle"
        /\ TrStatus(tr') = "completed") =>
            /\ tr'.pc = "done"
            /\ tr'.call.result = "completed"
            /\ tr'.call.attempts = 0
            /\ tr'.rows = tr.rows

C28_Attempts ==
    /\ tr.pc \in {"query", "sleep", "done"} =>
            tr.call.attempts <= tr.call.max_retries + 1
    /\ tr.pc \in {"query", "sleep"} =>
            /\ tr.call.attempts >= 1
            /\ TrStatus(tr) = "in_progress"

MaxTasks == 2

\* request.subject_name and request.difficulty_level: a subject as the
\* subjects table names it and a level.  content_key is
\* f"{subject_name}_{difficulty_level}"; the other handlers of the router
\* keep their entries of the same dictionary under keys that start with a
\* student id, which no key built from these names is.
GenSubjects == {"Physics"}

GenLevels == {"Foundation", "Expert"}

content_key(subject_name, difficulty_level) == <<subject_name, difficulty_level>>

ContentKeys == {content_key(s, l) : s \in GenSubjects, l \in GenLevels}

\* Variant: the status is not looked at.
already_generating_never(status, key) == FALSE

\* subjects.py:849
already_generating(status, key) == status[key] = "generating"

\* user_generated_content["generation_status"].get(content_key, "not_found")
get_generation_status(status, key) ==
    [content_key   |-> key,
     status        |-> status[key],
     is_generating |-> status[key] = "generating",
     is_completed  |-> status[key] = "completed",
     is_error      |-> status[key] = "error: "]

\* A sequence without its i-th element.
Remove(seq, i) == [j \in 1..(Len(seq) - 1) |-> IF j < i THEN seq[j] ELSE seq[j + 1]]

NoAnswer == [op |-> None, key |-> <<>>, message |-> None]

GenInit ==
    /\ EngineInit
    /\ DatabaseInit
    /\ unit = NoUnit
    /\ http = NoHttp
    /\ tr = NoTr
    /\ gui = NoGui
    /\ gen = [status |-> [k \in ContentKeys |-> "not_found"],
              topics |-> {},
              tasks  |-> [k \in ContentKeys |-> <<>>],
              last   |-> NoAnswer]

\* generate_topics_async: a coroutine without an await.  The task it adds
\* is a plain function, which Starlette runs in a worker thread after the
\* answer is sent.
GenerateTopicsAsync(key) ==
    /\ IF already_generating(gen.status, key)
       THEN gen' = [gen EXCEPT !.last =
                        [op |-> "generate-topics", key |-> key,
                         message |-> "Generation already in progress"]]
       ELSE /\ Len(gen.tasks[key]) < MaxTasks
            /\ gen' = [gen EXCEPT
                        !.status[key] = "generating",
                        !.tasks[key] = Append(@, "generate_topics"),
                        !.last = [op |-> "generate-topics", key |-> key,
                                  message |-> "Topic generation started"]]
    /\ UNCHANGED <<store, pc, call, db, dbcall, unit, http, tr, gui>>

\* generate_in_background: generate_topics returns and the topics are
\* stored, or it raises and the status becomes the error.
TaskGenerate(key) ==
    /\ \E i \in 1..Len(gen.tasks[key]), raised \in BOOLEAN :
            /\ gen.tasks[key][i] = "generate_topics"
            /\ gen' =
                IF raised
                THEN [gen EXCEPT !.status[key] = "error: ",
                                 !.tasks[key] = Remove(@, i)]
                ELSE [gen EXCEPT !.topics = @ \cup {key},
                                 !.tasks[key][i] = "stored"]
    /\ UNCHANGED <<store, pc, call, db, dbcall, unit, http, tr, gui>>

\* generate_in_background: the status becomes "completed".
TaskComplete(key) ==
    /\ \E i \in 1..Len(gen.tasks[key]) :
            /\ gen.tasks[key][i] = "stored"
            /\ gen' = [gen EXCEPT !.status[key] = "completed",
                                  !.tasks[key] = Remove(@, i)]
    /\ UNCHANGED <<store, pc, call, db, dbcall, unit, http, tr, gui>>

\* GET /generation-status/{content_key}
GetGenerationStatus(key) ==
    /\ gen' = [gen EXCEPT !.last =
                    [op |-> "generation-status", key |-> key,
                     message |-> get_generation_status(gen.status, key).status]]
    /\ UNCHANGED <<store, pc, call, db, dbcall, unit, http, tr, gui>>

GenNext ==
    \E key \in ContentKeys :
        \/ GenerateTopicsAsync(key)
        \/ TaskGenerate(key)
        \/ TaskComplete(key)
        \/ GetGenerationStatus(key)

\* A background task that was added runs, and runs to its end.
SpecGen ==
    /\ GenInit
    /\ [][GenNext]_vars
    /\ \A key \in ContentKeys :
            WF_vars(TaskGenerate(key)) /\ WF_vars(TaskComplete(key))

\* ------------------------------------------------------------------------
\* C29  For each content key at most one background generation is in
\* flight: a request that finds the status 'generating' adds no task; a key
\* whose status is 'generating' leaves it for 'completed' or an error
\* status when its task ends; and topics are stored whenever the status is
\* 'completed'.
\* ------------------------------------------------------------------------
C29_OneTask ==
    \A key \in ContentKeys :
        /\ Len(gen.tasks[key]) <= 1
        /\ gen.status[key] = "generating" <=> Len(gen.tasks[key]) = 1
        /\ gen.status[key] = "completed" => key \in gen.topics

C29_Step ==
    \A key \in ContentKeys :
        /\ gen.status[key] = "generating" =>
                Len(gen'.tasks[key]) <= Len(gen.tasks[key])
        /\ (gen.status[key] = "generating" /\ gen'.status[key] # "generating") =>
                /\ gen'.status[key] \in {"completed", "error: "}
                /\ Len(gen'.tasks[key]) = Len(gen.tasks[key]) - 1

MaxWorkers == 2

\* What simpledialog.askstring gives: a name, or nothing (Cancel, or an
\* empty entry).
DialogNames == Names \cup {<<>>}

\* _enable_capture_button
enable_capture_button(g) ==
    [g EXCEPT !.login_button = "disabled", !.register_button = "disabled",
              !.capture_button = "normal"]

\* Variant: Capture stays as it is.
disable_all_buttons_but_capture(g) ==
    [g EXCEPT !.login_button = "disabled", !.register_button = "disabled"]

\* _disable_all_buttons
disable_all_buttons(g) ==
    [g EXCEPT !.login_button = "disabled", !.register_button = "disabled",
              !.capture_button = "disabled"]

\* _reset_ui
reset_ui(g) ==
    [g EXCEPT !.current_action = None,
              !.student_name_for_registration = <<>>,
              !.login_button = "normal", !.register_button = "normal",
              !.capture_button = "disabled"]

\* LoginView.__init__: Login and Register are created in the default state,
\* Capture with state="disabled".
NewLoginView ==
    [view |-> "login",
     login_button |-> "normal", register_button |-> "normal",
     capture_button |-> "disabled",
     current_action |-> None,
     student_name_for_registration |-> <<>>,
     workers |-> <<>>,
     after |-> <<>>,
     last |-> None]

GuiInit ==
    /\ EngineInit
    /\ DatabaseInit
    /\ unit = NoUnit
    /\ http = NoHttp
    /\ tr = NoTr
    /\ gen = NoGen
    /\ gui = NewLoginView

\* A click reaches the command of a button only if the button is not
\* disabled, and the view is there to be clicked.
Clickable(button) == gui.view = "login" /\ button = "normal"

\* _on_login_clicked
OnLoginClicked ==
    /\ Clickable(gui.login_button)
    /\ gui' = [enable_capture_button(gui) EXCEPT
                    !.current_action = "login", !.last = "_on_login_clicked"]
    /\ UNCHANGED <<store, pc, call, db, dbcall, unit, http, tr, gen>>

\* _on_register_clicked
OnRegisterClicked ==
    /\ Clickable(gui.register_button)
    /\ \E name \in DialogNames :
            gui' =
                IF name = <<>>
                THEN [reset_ui(gui) EXCEPT !.last = "_on_register_clicked"]
                ELSE [enable_capture_button(gui) EXCEPT
                        !.student_name_for_registration = name,
                        !.current_action = "register",
                        !.last = "_on_register_clicked"]
    /\ UNCHANGED <<store, pc, call, db, dbcall, unit, http, tr, gen>>

\* threading.Thread(target=..., args=...) as _on_capture starts it
Thread(target, name, frame) ==
    [target |-> target, name |-> name, frame |-> frame, pc |-> "call",
     encoding |-> <<>>]

\* _on_capture: the buttons are disabled, the frame is read, and either the
\* read fails and the view is reset, or the thread of the current action is
\* started.
OnCapture ==
    /\ Clickable(gui.capture_button)
    /\ \E ret \in BOOLEAN, frame \in Frames :
       \E g \in {disable_all_buttons(gui)} :
            IF ~ret
            THEN gui' = [reset_ui(g) EXCEPT !.last = "_on_capture: no frame"]
            ELSE /\ Len(gui.workers) < MaxWorkers
                 /\ gui' =
                        IF g.current_action = "login"
                        THEN [g EXCEPT
                                !.workers = Append(@, Thread("_threaded_login",
                                                             <<>>, frame)),
                                !.last = "_on_capture"]
                        ELSE IF g.current_action = "register"
                        THEN [g EXCEPT
                                !.workers = Append(@, Thread("_threaded_register",
                                        g.student_name_for_registration, frame)),
                                !.last = "_on_capture"]
                        ELSE [g EXCEPT !.last = "_on_capture"]
    /\ UNCHANGED <<store, pc, call, db, dbcall, unit, http, tr, gen>>

\* The callbacks a worker queues with after(0, ...): after a normal return,
\* and in its except clause.
after_success == <<"_handle_auth_success">>

after_failure == <<"showerror", "_reset_ui", "_start_camera_feed">>

\* Saves the workers in flight are about to make.
WorkerSaves == Cardinality({i \in 1..Len(gui.workers) : gui.workers[i].pc = "save"})

\* _threaded_login / _threaded_register: authenticate(frame), or
\* register_face(name, frame) up to its save_encoding, on the directory as
\* it is; the thread queues its callbacks and ends.
WorkerCall ==
    /\ \E i \in 1..Len(gui.workers), order \in GlobOrders(store) :
       \E w \in {gui.workers[i]}, snap \in {load_all_encodings(store, order)} :
       \E r \in {IF w.target = "_threaded_login"
                 THEN authenticate(w.frame, DEF_TOLERANCE, snap)
                 ELSE register_face(w.name, w.frame, snap)} :
            /\ w.pc = "call"
            /\ r.result.status = "pending" =>
                    Cardinality(DOMAIN store) + WorkerSaves < MaxStore
            /\ gui' =
                IF r.result.status = "pending"
                THEN [gui EXCEPT !.workers[i].pc = "save",
                                 !.workers[i].encoding = r.encoding,
                                 !.last = "worker saves"]
                ELSE IF r.result.status = "raised"
                THEN [gui EXCEPT !.workers = Remove(@, i),
                                 !.after = @ \o after_failure,
                                 !.last = "worker raised"]
                ELSE [gui EXCEPT !.workers = Remove(@, i),
                                 !.after = @ \o after_success,
                                 !.last = "worker returned"]
    /\ UNCHANGED <<store, pc, call, db, dbcall, unit, http, tr, gen>>

\* _threaded_register: the save_encoding of register_face and its return.
WorkerSave ==
    /\ \E i \in 1..Len(gui.workers) :
       \E w \in {gui.workers[i]} :
            /\ w.pc = "save"
            /\ store' = save_encoding(store, w.name, w.encoding)
            /\ gui' = [gui EXCEPT !.workers = Remove(@, i),
                                  !.after = @ \o after_success,
                                  !.last = "worker returned"]
    /\ UNCHANGED <<pc, call, db, dbcall, unit, http, tr, gen>>

\* The event loop runs the callback that was queued first.
\* _handle_auth_success ends in show_main_view, or in the exception of
\* its create_student, which leaves the view as it is.
AfterCallback ==
    /\ gui.after # <<>>
    /\ \E raised \in BOOLEAN :
       \E callback \in {Head(gui.after)} :
       \E g \in {[gui EXCEPT !.after = Tail(@), !.last = callback]} :
            /\ raised => callback = "_handle_auth_success"
            /\ gui' =
                IF callback = "_reset_ui" THEN [reset_ui(g) EXCEPT !.last = callback]
                ELSE IF callback = "_handle_auth_success" /\ ~raised
                THEN [g EXCEPT !.view = "main"]
                ELSE g
    /\ UNCHANGED <<store, pc, call, db, dbcall, unit, http, tr, gen>>

\* The window is closed and the program is run again: AITutorApp.__init__
\* shows a new LoginView; the directory is as the last run left it.
AppStart ==
    /\ gui.last # None
    /\ gui.workers = <<>>
    /\ gui.after = <<>>
    /\ gui' = NewLoginView
    /\ UNCHANGED <<store, pc, call, db, dbcall, unit, http, tr, gen>>

GuiNext ==
    \/ OnLoginClicked
    \/ OnRegisterClicked
    \/ OnCapture
    \/ WorkerCall
    \/ WorkerSave
    \/ AfterCallback
    \/ AppStart

SpecGui == GuiInit /\ [][GuiNext]_vars

\* ------------------------------------------------------------------------
\* C30  At most one register_face / authenticate worker thread is in
\* flight: Capture is enabled only after Login or Register was chosen, all
\* three buttons are disabled while a worker runs, and the buttons are
\* re-enabled only by the reset that a failed worker schedules.
\* ------------------------------------------------------------------------
C30_Buttons ==
    /\ Len(gui.workers) <= 1
    /\ gui.capture_button = "normal" =>
            /\ gui.current_action \in {"login", "register"}
            /\ gui.login_button = "disabled"
            /\ gui.register_button = "disabled"
            /\ gui.workers = <<>>
    /\ gui.workers # <<>> =>
            /\ gui.login_button = "disabled"
            /\ gui.register_button = "disabled"
            /\ gui.capture_button = "disabled"

\* A button of the view goes from disabled to normal (a newly created view,
\* whose buttons were never disabled, is not a re-enabling).
Reenabled ==
    /\ gui' # NewLoginView
    /\ \/ gui.login_button = "disabled" /\ gui'.login_button = "normal"
       \/ gui.register_button = "disabled" /\ gui'.register_button = "normal"

\* As stated: only the reset queued by a failed worker re-enables.
C30_ResetByWorkerStep ==
    Reenabled => /\ gui.after # <<>>
                 /\ Head(gui.after) = "_reset_ui"
                 /\ gui'.last = "_reset_ui"

C30_OneWorkerResetByWorker ==
    /\ []C30_Buttons
    /\ [][C30_ResetByWorkerStep]_vars

\* C30 amended: the buttons are re-enabled only by _reset_ui, run as the
\* callback a failed worker queued or by _on_capture when no frame could be
\* read and no worker was started; no worker is in flight when it runs.
C30_ResetStep ==
    Reenabled =>
        /\ gui.workers = <<>>
        /\ gui'.workers = <<>>
        /\ gui'.capture_button = "disabled"
        /\ \/ /\ gui.after # <<>>
              /\ Head(gui.after) = "_reset_ui"
              /\ gui'.last = "_reset_ui"
           \/ /\ gui.capture_button = "normal"
              /\ gui'.last = "_on_capture: no frame"

C30_OneWorker ==
    /\ []C30_Buttons
    /\ [][C30_ResetStep]_vars

C30_Witness ==
    /\ gui.last = "_reset_ui"
    /\ gui.login_button = "normal"
    /\ gui.workers = <<>>
    /\ gui.after = <<"_start_camera_feed">>

====
